---- MODULE Spec2Model ----
(***************************************************************************)
(* Model of the single-action agent decision loop of                       *)
(* src/src/agents/agent.py (class Agent): prompt validation at             *)
(* construction, scratchpad building, input assembly, plan with its        *)
(* one-retry recovery, and the stopping response.                          *)
(*                                                                         *)
(* Python strings are TLA+ strings (\o is +), Python lists are sequences,  *)
(* Python dicts are functions over a set of string keys.                   *)
(***************************************************************************)
EXTENDS Integers, Sequences, FiniteSets, TLC

(***************************************************************************)
(* Bounds of the model.                                                    *)
(***************************************************************************)
MaxSteps == 2
MaxValidations == 2

(***************************************************************************)
(* String helpers (Python str methods used by the code and the parser).    *)
(***************************************************************************)
Whitespace == {" ", "\n", "\t"}

RECURSIVE RStrip(_)
RStrip(s) ==
    IF Len(s) > 0 /\ SubSeq(s, Len(s), Len(s)) \in Whitespace
    THEN RStrip(SubSeq(s, 1, Len(s) - 1))
    ELSE s

RECURSIVE LStrip(_)
LStrip(s) ==
    IF Len(s) > 0 /\ SubSeq(s, 1, 1) \in Whitespace
    THEN LStrip(SubSeq(s, 2, Len(s)))
    ELSE s

Strip(s) == LStrip(RStrip(s))

\* positions at which sub occurs in s
Occurrences(s, sub) ==
    { i \in 1..(Len(s) - Len(sub) + 1) : SubSeq(s, i, i + Len(sub) - 1) = sub }

Contains(s, sub) == Occurrences(s, sub) /= {}

Min(S) == CHOOSE m \in S : \A n \in S : m <= n

\* the text after the first occurrence of sub in s
After(s, sub) == SubSeq(s, Min(Occurrences(s, sub)) + Len(sub), Len(s))

\* number of elements of the list equal to v
Count(list, v) == Cardinality({ i \in 1..Len(list) : list[i] = v })

\* {**a, **b}: the keys of both, b wins on collision
DictMerge(a, b) ==
    [k \in (DOMAIN a) \cup (DOMAIN b) |-> IF k \in DOMAIN b THEN b[k] ELSE a[k]]

(***************************************************************************)
(* The concrete agent flavour: the two abstract prefixes.                  *)
(***************************************************************************)
observation_prefix == "Observation: "
llm_prefix == "Thought:"

\* Agent._stop
_stop ==
    << "\n" \o RStrip(observation_prefix), "\n\t" \o RStrip(observation_prefix) >>

(***************************************************************************)
(* Decisions and outcomes.                                                 *)
(***************************************************************************)
AgentAction(tool, tool_input, log) ==
    [type |-> "AgentAction", tool |-> tool, tool_input |-> tool_input, log |-> log]

AgentFinish(return_values, log) ==
    [type |-> "AgentFinish", return_values |-> return_values, log |-> log]

Return(v) == [kind |-> "return", value |-> v]
Raise(e) == [kind |-> "raise", exc |-> e]

(***************************************************************************)
(* The output parser plugged into the loop: a ReAct-style grammar.         *)
(* A final-answer marker gives a Finish, an "Action: <tool>" stanza gives  *)
(* an Action, anything else fails with ParseError; log is the input text.  *)
(***************************************************************************)
FINAL_ANSWER == "Final Answer:"
ACTION_MARK == "Action: "

Parse(text) ==
    IF Contains(text, FINAL_ANSWER)
    THEN Return(AgentFinish([output |-> Strip(After(text, FINAL_ANSWER))], text))
    ELSE IF Contains(text, ACTION_MARK) /\ Strip(After(text, ACTION_MARK)) /= ""
         THEN Return(AgentAction(Strip(After(text, ACTION_MARK)), "", text))
         ELSE Raise([type |-> "ParseError", text |-> text])

(***************************************************************************)
(* Inputs: what the caller and the model invocation chain may supply.      *)
(***************************************************************************)
Steps ==
    { <<AgentAction("search", "", "Action: search"), "ok">>,
      <<AgentAction("notes", "", "I should look.\nAction: notes"), "2 results">> }

Histories == UNION { [1..n -> Steps] : n \in 0..MaxSteps }

CallerKwargs ==
    { [input |-> "q"],
      [input |-> "q", agent_scratchpad |-> "mine", stop |-> <<"STOP">>] }

Completions == {"Action: search", "Final Answer: 42", "search", ""}
ModelErrors == {"TimeoutError", "ProviderError"}

\* what one call of the model invocation chain does: returns text or raises
ModelOutcomes ==
    { [kind |-> "text", text |-> t] : t \in Completions }
      \cup { [kind |-> "raise", exc |-> [type |-> e]] : e \in ModelErrors }

Methods == {"force", "generate", "bogus"}

SCRATCHPAD_VAR == "agent_scratchpad"
SCRATCHPAD_SLOT == "\n{agent_scratchpad}"

\* prompt templates as created by the caller, before any validation; for a
\* template that is neither flat nor few-shot, template stands for the text of
\* its messages, which validate_prompt never touches
Templates ==
    { [kind |-> "PromptTemplate", input_variables |-> <<"input">>,
       template |-> "Q: {input}", suffix |-> ""],
      [kind |-> "PromptTemplate", input_variables |-> <<"input", "agent_scratchpad">>,
       template |-> "Q: {input}\n{agent_scratchpad}", suffix |-> ""],
      [kind |-> "FewShotPromptTemplate", input_variables |-> <<"input">>,
       template |-> "", suffix |-> "Q: {input}"],
      [kind |-> "FewShotPromptTemplate", input_variables |-> <<"agent_scratchpad", "input">>,
       template |-> "", suffix |-> "{agent_scratchpad}\nQ: {input}"],
      [kind |-> "ChatPromptTemplate", input_variables |-> <<"input">>,
       template |-> "Human: {input}", suffix |-> ""],
      [kind |-> "ChatPromptTemplate", input_variables |-> <<"input", "agent_scratchpad">>,
       template |-> "Human: {input}\n{agent_scratchpad}", suffix |-> ""] }

VARIABLES
    prompt,              \* the prompt template object handed to every construction
    created,             \* the template as the caller created it
    validations,         \* number of validate_prompt runs over prompt
    constructed,         \* number of Agent instances successfully constructed
    lastValidate,        \* outcome of the last validate_prompt run
    intermediate_steps,  \* the caller's history list
    call,                \* the last operation called on the agent and its trace
    tasks                \* the frames of the aplan coroutines in flight

vars == <<prompt, created, validations, constructed, lastValidate,
          intermediate_steps, call, tasks>>

NoCall ==
    [op |-> "none", kwargs |-> <<>>, method |-> "", stub |-> <<>>,
     modelCalls |-> <<>>, parserCalls |-> <<>>, result |-> [kind |-> "none"]]

\* the aplan coroutines that may overlap on one agent
Tasks == {1, 2}

\* the frame of a coroutine that has not been called
IdleFrame ==
    [pc |-> "idle", steps |-> <<>>, kwargs |-> <<>>, stub |-> <<>>,
     full_inputs |-> <<>>, full_output |-> <<>>,
     modelCalls |-> <<>>, parserCalls |-> <<>>, result |-> [kind |-> "none"]]

\* the template the histories are run with
DefaultTemplate ==
    [kind |-> "PromptTemplate", input_variables |-> <<"input">>,
     template |-> "Q: {input}", suffix |-> ""]

\* Construction never reads the history and the operations of a constructed
\* agent never read the template, so the two are varied one at a time: every
\* template with the empty history, every history with the default template.
Init ==
    /\ tasks = [t \in Tasks |-> IdleFrame]
    /\ prompt \in Templates
    /\ created = prompt
    /\ validations = 0
    /\ constructed = 0
    /\ lastValidate = "none"
    /\ intermediate_steps \in Histories
    /\ prompt = DefaultTemplate \/ intermediate_steps = <<>>
    /\ call = NoCall

\* validate_prompt without the membership test: patches on every run
validate_prompt_unconditional(p) ==
    LET p1 == [p EXCEPT !.input_variables = Append(@, SCRATCHPAD_VAR)] IN
    IF p.kind = "PromptTemplate"
    THEN [prompt |-> [p1 EXCEPT !.template = @ \o SCRATCHPAD_SLOT], outcome |-> "ok"]
    ELSE IF p.kind = "FewShotPromptTemplate"
         THEN [prompt |-> [p1 EXCEPT !.suffix = @ \o SCRATCHPAD_SLOT], outcome |-> "ok"]
         ELSE [prompt |-> p1, outcome |-> "ValueError"]

(***************************************************************************)
(* Agent.validate_prompt: the root validator run by every construction.    *)
(* The template object is shared, so its mutations survive a failure.      *)
(***************************************************************************)
validate_prompt(p) ==
    IF Count(p.input_variables, SCRATCHPAD_VAR) = 0
    THEN LET p1 == [p EXCEPT !.input_variables = Append(@, SCRATCHPAD_VAR)] IN
         IF p.kind = "PromptTemplate"
         THEN [prompt |-> [p1 EXCEPT !.template = @ \o SCRATCHPAD_SLOT], outcome |-> "ok"]
         ELSE IF p.kind = "FewShotPromptTemplate"
              THEN [prompt |-> [p1 EXCEPT !.suffix = @ \o SCRATCHPAD_SLOT], outcome |-> "ok"]
              ELSE [prompt |-> p1, outcome |-> "ValueError"]
    ELSE [prompt |-> p, outcome |-> "ok"]

(***************************************************************************)
(* Agent._construct_scratchpad: the loop over the steps, left to right.    *)
(***************************************************************************)
RECURSIVE ScratchpadLoop(_, _, _)
ScratchpadLoop(steps, i, thoughts) ==
    IF i > Len(steps)
    THEN thoughts
    ELSE LET action == steps[i][1]
             observation == steps[i][2]
             t1 == thoughts \o action.log
             t2 == t1 \o ("\n" \o observation_prefix \o observation \o "\n" \o llm_prefix)
         IN ScratchpadLoop(steps, i + 1, t2)

\* the loop started one Step too late
_construct_scratchpad_skipsFirst(steps) == ScratchpadLoop(steps, 2, "")

_construct_scratchpad(steps) == ScratchpadLoop(steps, 1, "")

\* the merge written the other way round: {**new_inputs, **kwargs}
get_full_inputs_callerWins(steps, kwargs) ==
    LET thoughts == ScratchpadLoop(steps, 1, "")
        new_inputs == [agent_scratchpad |-> thoughts, stop |-> _stop]
    IN DictMerge(new_inputs, kwargs)

(***************************************************************************)
(* Agent.get_full_inputs                                                   *)
(***************************************************************************)
get_full_inputs(steps, kwargs) ==
    LET thoughts == _construct_scratchpad(steps)
        new_inputs == [agent_scratchpad |-> thoughts, stop |-> _stop]
    IN DictMerge(kwargs, new_inputs)

Trace(calls, parses, result) ==
    [modelCalls |-> calls, parserCalls |-> parses, result |-> result]

\* variants of plan's retry: the extension of the scratchpad and the error
\* raised when the retry fails
plan_variant(steps, kwargs, r1, r2, extension(_), retryError(_, _)) ==
    LET full_inputs == DictMerge(kwargs, [agent_scratchpad |-> ScratchpadLoop(steps, 1, ""),
                                          stop |-> _stop])
    IN
    IF r1.kind = "raise"
    THEN Trace(<<full_inputs>>, <<>>,
               Raise([type |-> "UnboundLocalError", name |-> "full_output"]))
    ELSE LET parsed == Parse(r1.text)
         IN IF parsed.kind = "return"
            THEN Trace(<<full_inputs>>, <<r1.text>>, parsed)
            ELSE LET retry_inputs ==
                         [full_inputs EXCEPT !["agent_scratchpad"] = @ \o extension(r1.text)]
                 IN IF r2.kind = "raise"
                    THEN Trace(<<full_inputs, retry_inputs>>, <<r1.text>>,
                               Raise(retryError(parsed.exc, r2.exc)))
                    ELSE LET reparsed == Parse("Action: " \o r2.text)
                         IN Trace(<<full_inputs, retry_inputs>>,
                                  <<r1.text, "Action: " \o r2.text>>,
                                  IF reparsed.kind = "raise"
                                  THEN Raise(retryError(parsed.exc, reparsed.exc))
                                  ELSE reparsed)

\* the retry forgets the failed completion
plan_dropsFailedOutput(steps, kwargs, r1, r2) ==
    LET extension(out) == "\nAction: "
        retryError(first, second) == second
    IN plan_variant(steps, kwargs, r1, r2, extension, retryError)

\* a failed retry re-raises the error of the first attempt
plan_reraisesFirstError(steps, kwargs, r1, r2) ==
    LET extension(out) == out \o "\nAction: "
        retryError(first, second) == first
    IN plan_variant(steps, kwargs, r1, r2, extension, retryError)

\* a failed retry is followed by one more call with the same inputs
plan_retriesAgain(steps, kwargs, r1, r2) ==
    LET extension(out) == out \o "\nAction: "
        retryError(first, second) == second
        t == plan_variant(steps, kwargs, r1, r2, extension, retryError)
    IN IF Len(t.modelCalls) = 2 /\ t.result.kind = "raise"
       THEN [t EXCEPT !.modelCalls = Append(@, @[2])]
       ELSE t

(***************************************************************************)
(* Agent.plan, run against a model invocation chain whose first call does  *)
(* r1 and whose second call does r2.  When predict raises inside the try   *)
(* block, full_output is still unbound and the handler's own read of it    *)
(* raises UnboundLocalError before any retry.                              *)
(***************************************************************************)
UnboundLocalError == [type |-> "UnboundLocalError", name |-> "full_output"]

plan(steps, kwargs, r1, r2) ==
    LET full_inputs == get_full_inputs(steps, kwargs) IN
    IF r1.kind = "raise"
    THEN Trace(<<full_inputs>>, <<>>, Raise(UnboundLocalError))
    ELSE LET full_output == r1.text
             parsed == Parse(full_output)
         IN IF parsed.kind = "return"
            THEN Trace(<<full_inputs>>, <<full_output>>, parsed)
            ELSE LET retry_inputs ==
                         [full_inputs EXCEPT !["agent_scratchpad"] =
                              (@ \o full_output) \o "\nAction: "]
                 IN IF r2.kind = "raise"
                    THEN Trace(<<full_inputs, retry_inputs>>, <<full_output>>,
                               Raise(r2.exc))
                    ELSE Trace(<<full_inputs, retry_inputs>>,
                               <<full_output, "Action: " \o r2.text>>,
                               Parse("Action: " \o r2.text))

(***************************************************************************)
(* Agent.aplan, one operator per stretch of code between suspension        *)
(* points.  A frame holds the coroutine's locals: full_output is <<>>      *)
(* while the name is unbound and <<text>> once assigned.                   *)
(***************************************************************************)
Done(f, result) == [f EXCEPT !.pc = "done", !.result = result]

\* up to the first await: build the inputs, call apredict
aplan_start(steps, kwargs) ==
    LET full_inputs == get_full_inputs(steps, kwargs) IN
    [IdleFrame EXCEPT !.pc = "await1", !.steps = steps, !.kwargs = kwargs,
                      !.full_inputs = full_inputs, !.modelCalls = <<full_inputs>>]

\* the handler's extension is taken from the frame of the first coroutine, as
\* if full_inputs were kept on the agent instead of in a local
aplan_resume1_sharedInputs(f, r) ==
    LET g == [f EXCEPT !.stub = Append(@, r)] IN
    IF r.kind = "raise"
    THEN Done(g, Raise(UnboundLocalError))
    ELSE LET parsed == Parse(r.text) IN
         IF parsed.kind = "return"
         THEN Done([g EXCEPT !.full_output = <<r.text>>, !.parserCalls = <<r.text>>],
                   parsed)
         ELSE LET shared == IF tasks[1].pc = "idle"
                            THEN f.full_inputs
                            ELSE tasks[1].full_inputs
                  retry_inputs ==
                      [shared EXCEPT !["agent_scratchpad"] = (@ \o r.text) \o "\nAction: "]
              IN [g EXCEPT !.pc = "await2", !.full_output = <<r.text>>,
                           !.parserCalls = <<r.text>>,
                           !.full_inputs = retry_inputs,
                           !.modelCalls = Append(@, retry_inputs)]

\* the first apredict is over: it raised r.exc or returned r.text; on a
\* failure the handler runs up to the second await
aplan_resume1(f, r) ==
    LET g == [f EXCEPT !.stub = Append(@, r)]
        \* except Exception: reads full_inputs and full_output
        handler(h) ==
            IF h.full_output = <<>>
            THEN Done(h, Raise(UnboundLocalError))
            ELSE LET retry_inputs ==
                         [h.full_inputs EXCEPT !["agent_scratchpad"] =
                              (@ \o h.full_output[1]) \o "\nAction: "]
                 IN [h EXCEPT !.pc = "await2", !.full_inputs = retry_inputs,
                              !.modelCalls = Append(@, retry_inputs)]
    IN IF r.kind = "raise"
       THEN handler(g)
       ELSE LET h == [g EXCEPT !.full_output = <<r.text>>,
                               !.parserCalls = Append(@, r.text)]
                agent_output == Parse(r.text)
            IN IF agent_output.kind = "return"
               THEN Done(h, agent_output)
               ELSE handler(h)

\* the retry's completion is parsed as it came, without the "Action: " prefix
aplan_resume2_noPrefix(f, r) ==
    LET g == [f EXCEPT !.stub = Append(@, r)] IN
    IF r.kind = "raise"
    THEN Done(g, Raise(r.exc))
    ELSE Done([g EXCEPT !.full_output = <<r.text>>,
                        !.parserCalls = Append(@, r.text)],
              Parse(r.text))

\* the second apredict is over; nothing catches a failure here
aplan_resume2(f, r) ==
    LET g == [f EXCEPT !.stub = Append(@, r)] IN
    IF r.kind = "raise"
    THEN Done(g, Raise(r.exc))
    ELSE Done([g EXCEPT !.full_output = <<r.text>>,
                        !.parserCalls = Append(@, "Action: " \o r.text)],
              Parse("Action: " \o r.text))

\* aplan awaited to completion with nothing else scheduled in between
aplan(steps, kwargs, r1, r2) ==
    LET f1 == aplan_resume1(aplan_start(steps, kwargs), r1) IN
    IF f1.pc = "done" THEN f1 ELSE aplan_resume2(f1, r2)

(***************************************************************************)
(* Agent.return_stopped_response, the model's single call doing r1.        *)
(***************************************************************************)
\* the message of an older release
FORCE_OUTPUT_old == "Agent stopped due to max iterations."
FORCE_OUTPUT == "Agent stopped due to iteration limit or time limit."
FINAL_INSTRUCTION ==
    "\n\nI now need to return a final answer based on the previous steps:"

\* variants of return_stopped_response: what becomes of a parsed tool call,
\* and which methods take the "force" branch
stopped_variant(early_stopping_method, steps, kwargs, r1, wrap(_, _), forced) ==
    IF early_stopping_method \in forced
    THEN Trace(<<>>, <<>>, Return(AgentFinish([output |-> FORCE_OUTPUT], "")))
    ELSE IF early_stopping_method = "generate"
    THEN LET full_inputs ==
                 DictMerge(kwargs,
                           [agent_scratchpad |->
                                ScratchpadLoop(steps, 1, "") \o FINAL_INSTRUCTION,
                            stop |-> _stop])
         IN IF r1.kind = "raise"
            THEN Trace(<<full_inputs>>, <<>>, Raise(r1.exc))
            ELSE LET parsed_output == Parse(r1.text)
                 IN IF parsed_output.kind = "raise"
                    THEN Trace(<<full_inputs>>, <<r1.text>>, parsed_output)
                    ELSE IF parsed_output.value.type = "AgentFinish"
                    THEN Trace(<<full_inputs>>, <<r1.text>>, parsed_output)
                    ELSE Trace(<<full_inputs>>, <<r1.text>>,
                               Return(wrap(parsed_output.value, r1.text)))
    ELSE Trace(<<>>, <<>>, Raise([type |-> "ValueError"]))

\* the parsed tool call is handed back instead of being wrapped
return_stopped_response_returnsParsed(early_stopping_method, steps, kwargs, r1) ==
    LET wrap(parsed, text) == parsed
    IN stopped_variant(early_stopping_method, steps, kwargs, r1, wrap, {"force"})

\* every method but "generate" falls into the "force" branch
return_stopped_response_defaultsToForce(early_stopping_method, steps, kwargs, r1) ==
    LET wrap(parsed, text) == AgentFinish([output |-> text], text)
    IN stopped_variant(early_stopping_method, steps, kwargs, r1, wrap,
                       Methods \ {"generate"})

\* "generate" given plan's recovery: a failure is followed by a second call
return_stopped_response_retries(early_stopping_method, steps, kwargs, r1) ==
    LET wrap(parsed, text) == AgentFinish([output |-> text], text)
        t == stopped_variant(early_stopping_method, steps, kwargs, r1, wrap, {"force"})
    IN IF early_stopping_method = "generate" /\ t.result.kind = "raise"
       THEN [t EXCEPT !.modelCalls = Append(@, @[1])]
       ELSE t

\* "generate" sends the final-answer instruction without the transcript
return_stopped_response_forgetsHistory(early_stopping_method, steps, kwargs, r1) ==
    LET wrap(parsed, text) == AgentFinish([output |-> text], text)
        t == stopped_variant(early_stopping_method, steps, kwargs, r1, wrap, {"force"})
    IN IF early_stopping_method = "generate"
       THEN [t EXCEPT !.modelCalls[1]["agent_scratchpad"] = FINAL_INSTRUCTION]
       ELSE t

return_stopped_response(early_stopping_method, steps, kwargs, r1) ==
    IF early_stopping_method = "force"
    THEN Trace(<<>>, <<>>, Return(AgentFinish([output |-> FORCE_OUTPUT], "")))
    ELSE IF early_stopping_method = "generate"
    THEN LET thoughts == ScratchpadLoop(steps, 1, "") \o FINAL_INSTRUCTION
             new_inputs == [agent_scratchpad |-> thoughts, stop |-> _stop]
             full_inputs == DictMerge(kwargs, new_inputs)
         IN IF r1.kind = "raise"
            THEN Trace(<<full_inputs>>, <<>>, Raise(r1.exc))
            ELSE LET full_output == r1.text
                     parsed_output == Parse(full_output)
                 IN IF parsed_output.kind = "raise"
                    THEN Trace(<<full_inputs>>, <<full_output>>, parsed_output)
                    ELSE IF parsed_output.value.type = "AgentFinish"
                    THEN Trace(<<full_inputs>>, <<full_output>>, parsed_output)
                    ELSE Trace(<<full_inputs>>, <<full_output>>,
                               Return(AgentFinish([output |-> full_output], full_output)))
    ELSE Trace(<<>>, <<>>, Raise([type |-> "ValueError"]))

(***************************************************************************)
(* Actions.                                                                *)
(***************************************************************************)
\* Agent(llm_chain=..., ...) / Agent.from_llm_and_tools over the prompt object
Construct ==
    /\ validations < MaxValidations
    /\ LET v == validate_prompt(prompt) IN
         /\ prompt' = v.prompt
         /\ lastValidate' = v.outcome
         /\ constructed' = IF v.outcome = "ok" THEN constructed + 1 ELSE constructed
    /\ validations' = validations + 1
    /\ UNCHANGED <<created, intermediate_steps, call, tasks>>

Called(op, kwargs, method, stub, trace) ==
    [op |-> op, kwargs |-> kwargs, method |-> method, stub |-> stub,
     modelCalls |-> trace.modelCalls, parserCalls |-> trace.parserCalls,
     result |-> trace.result]

\* plan building the scratchpad by popping the Steps off the caller's list
Plan_consumesHistory ==
    /\ constructed > 0
    /\ \E kwargs \in CallerKwargs, r1 \in ModelOutcomes, r2 \in ModelOutcomes :
         call' = Called("plan", kwargs, "", <<r1, r2>>,
                        plan(intermediate_steps, kwargs, r1, r2))
    /\ intermediate_steps' = <<>>
    /\ UNCHANGED <<prompt, created, validations, constructed, lastValidate, tasks>>

Plan ==
    /\ constructed > 0
    /\ \E kwargs \in CallerKwargs, r1 \in ModelOutcomes, r2 \in ModelOutcomes :
         call' = Called("plan", kwargs, "", <<r1, r2>>,
                        plan(intermediate_steps, kwargs, r1, r2))
    /\ UNCHANGED <<prompt, created, validations, constructed, lastValidate,
                   intermediate_steps, tasks>>

GetFullInputs ==
    /\ constructed > 0
    /\ \E kwargs \in CallerKwargs :
         call' = Called("get_full_inputs", kwargs, "", <<>>,
                        Trace(<<>>, <<>>,
                              Return(get_full_inputs(intermediate_steps, kwargs))))
    /\ UNCHANGED <<prompt, created, validations, constructed, lastValidate,
                   intermediate_steps, tasks>>

ReturnStoppedResponse ==
    /\ constructed > 0
    /\ \E method \in Methods, kwargs \in CallerKwargs, r1 \in ModelOutcomes :
         call' = Called("return_stopped_response", kwargs, method, <<r1>>,
                        return_stopped_response(method, intermediate_steps, kwargs, r1))
    /\ UNCHANGED <<prompt, created, validations, constructed, lastValidate,
                   intermediate_steps, tasks>>

\* await agent.aplan(...) by a caller that runs nothing else meanwhile
Aplan ==
    /\ constructed > 0
    /\ \E kwargs \in CallerKwargs, r1 \in ModelOutcomes, r2 \in ModelOutcomes :
         call' = Called("aplan", kwargs, "", <<r1, r2>>,
                        aplan(intermediate_steps, kwargs, r1, r2))
    /\ UNCHANGED <<prompt, created, validations, constructed, lastValidate,
                   intermediate_steps, tasks>>

Next == Construct \/ Plan \/ Aplan \/ GetFullInputs \/ ReturnStoppedResponse

Spec == Init /\ [][Next]_vars

(***************************************************************************)
(* Overlapping aplan coroutines on one constructed agent, each called with *)
(* a history of its own and scheduled at its awaits.                       *)
(***************************************************************************)
InitAsync ==
    /\ prompt \in { validate_prompt(p).prompt :
                      p \in { q \in Templates : q.kind = "PromptTemplate" } }
    /\ created = prompt
    /\ validations = 1
    /\ constructed = 1
    /\ lastValidate = "ok"
    /\ intermediate_steps = <<>>
    /\ call = NoCall
    /\ tasks = [t \in Tasks |-> IdleFrame]

AsyncFrame == <<prompt, created, validations, constructed, lastValidate,
                intermediate_steps, call>>

\* a caller schedules agent.aplan(history, **kwargs)
AplanCall(t) ==
    /\ tasks[t].pc = "idle"
    /\ \E steps \in Histories, kwargs \in CallerKwargs :
         tasks' = [tasks EXCEPT ![t] = aplan_start(steps, kwargs)]
    /\ UNCHANGED AsyncFrame

\* the event loop resumes t with the outcome of its first apredict
AplanFirstResponse(t) ==
    /\ tasks[t].pc = "await1"
    /\ \E r \in ModelOutcomes :
         tasks' = [tasks EXCEPT ![t] = aplan_resume1(tasks[t], r)]
    /\ UNCHANGED AsyncFrame

\* the event loop resumes t with the outcome of its second apredict
AplanSecondResponse(t) ==
    /\ tasks[t].pc = "await2"
    /\ \E r \in ModelOutcomes :
         tasks' = [tasks EXCEPT ![t] = aplan_resume2(tasks[t], r)]
    /\ UNCHANGED AsyncFrame

NextAsync ==
    \E t \in Tasks : AplanCall(t) \/ AplanFirstResponse(t) \/ AplanSecondResponse(t)

SpecAsync == InitAsync /\ [][NextAsync]_vars

(***************************************************************************)
(* Reading the trace of the last call.                                     *)
(***************************************************************************)
IsPlan == call.op = "plan"
IsStopped(method) == call.op = "return_stopped_response" /\ call.method = method
NumModelCalls == Len(call.modelCalls)
ScratchpadOfCall(n) == call.modelCalls[n]["agent_scratchpad"]
Returned == call.result.kind = "return"
Raised == call.result.kind = "raise"
ReturnedA(type) == Returned /\ call.result.value.type = type

IsToolCallText(t) == Parse(t).kind = "return" /\ Parse(t).value.type = "AgentAction"
IsFinishText(t) == Parse(t).kind = "return" /\ Parse(t).value.type = "AgentFinish"
IsUnparsable(t) == Parse(t).kind = "raise"

\* the first model call of plan returned text the parser rejected
FirstParseFailed ==
    IsPlan /\ call.stub[1].kind = "text" /\ IsUnparsable(call.stub[1].text)

\* C1: when the model raises on the first call of plan and returns
\* well-formed tool-call text on the second, plan returns the Action parsed
\* from the second completion, and the second call's scratchpad is the first
\* call's scratchpad plus the failed output (none was produced) plus
\* "\nAction: ".
C1_RetryAfterModelError ==
    (IsPlan /\ call.stub[1].kind = "raise" /\ call.stub[2].kind = "text"
       /\ IsToolCallText(call.stub[2].text))
    => /\ NumModelCalls = 2
       /\ ReturnedA("AgentAction")
       /\ call.result \in { Parse(call.stub[2].text),
                            Parse("Action: " \o call.stub[2].text) }
       /\ ScratchpadOfCall(2) = ScratchpadOfCall(1) \o "\nAction: "

\* C2: when the model raises on both calls of one plan invocation, plan makes
\* exactly two model calls and raises exactly the second call's exception.
C2_SecondErrorPropagates ==
    (IsPlan /\ call.stub[1].kind = "raise" /\ call.stub[2].kind = "raise")
    => /\ NumModelCalls = 2
       /\ call.result = Raise(call.stub[2].exc)

\* C3: when the parser rejects the first completion T1, plan makes exactly one
\* more model call, whose scratchpad is the original scratchpad, then T1, then
\* "\nAction: ", with the same stop sequences and caller bindings as the first
\* call, and plan's result is the parse of "Action: " plus the second
\* completion.
C3_RetryAfterParseError ==
    FirstParseFailed
    => /\ NumModelCalls = 2
       /\ DOMAIN call.modelCalls[2] = DOMAIN call.modelCalls[1]
       /\ ScratchpadOfCall(2) =
              (ScratchpadOfCall(1) \o call.stub[1].text) \o "\nAction: "
       /\ \A k \in DOMAIN call.modelCalls[1] \ {"agent_scratchpad"} :
              call.modelCalls[2][k] = call.modelCalls[1][k]
       /\ \A k \in DOMAIN call.kwargs \ {"agent_scratchpad", "stop"} :
              call.modelCalls[2][k] = call.kwargs[k]
       /\ call.stub[2].kind = "text"
              => call.result = Parse("Action: " \o call.stub[2].text)

C3_Witness ==
    /\ FirstParseFailed
    /\ Len(intermediate_steps) > 0
    /\ call.stub[2].kind = "text"
    /\ ReturnedA("AgentAction")
    /\ NumModelCalls = 2

\* the retry of plan failed: its model call raised, or its parse raised
RetryFailed ==
    \/ call.stub[2].kind = "raise"
    \/ /\ call.stub[2].kind = "text"
       /\ IsUnparsable("Action: " \o call.stub[2].text)

RetryError ==
    IF call.stub[2].kind = "raise"
    THEN call.stub[2].exc
    ELSE Parse("Action: " \o call.stub[2].text).exc

\* C4: when the parser rejects the first completion and the retry fails with
\* error E, plan raises E unchanged, makes no third model call and returns no
\* Decision.
C4_RetryFailurePropagates ==
    (FirstParseFailed /\ RetryFailed)
    => /\ Raised
       /\ call.result.exc = RetryError
       /\ NumModelCalls = 2

C4_Witness ==
    /\ FirstParseFailed
    /\ call.stub[2].kind = "text"
    /\ IsUnparsable("Action: " \o call.stub[2].text)
    /\ Raised
    /\ call.result.exc.type = "ParseError"

\* C5: return_stopped_response with method "force" returns a Finish whose
\* output is exactly the fixed message, with no model and no parser call,
\* whatever the history and the caller bindings.
C5_ForceIsConstant ==
    IsStopped("force")
    => /\ ReturnedA("AgentFinish")
       /\ call.result.value.return_values["output"] =
              "Agent stopped due to iteration limit or time limit."
       /\ call.modelCalls = <<>>
       /\ call.parserCalls = <<>>

C5_Witness ==
    /\ IsStopped("force")
    /\ Len(intermediate_steps) > 0
    /\ "agent_scratchpad" \in DOMAIN call.kwargs
    /\ Returned

\* C6 as stated: in "generate" mode, for every completion text, the result is
\* a Finish: the parsed Finish for finish-grammar text, and otherwise (tool
\* call text, or text matching neither grammar) a Finish whose output is the
\* raw completion.
C6_GenerateAlwaysFinishes ==
    (IsStopped("generate") /\ call.stub[1].kind = "text")
    => /\ ReturnedA("AgentFinish")
       /\ IF IsFinishText(call.stub[1].text)
          THEN call.result = Parse(call.stub[1].text)
          ELSE call.result.value.return_values["output"] = call.stub[1].text

\* C6 amended: the parsed Finish for finish-grammar text, a Finish whose
\* output is the raw completion for tool-call text, and for text matching
\* neither grammar the parser's error is raised and no Finish is returned.
C6_GenerateFinishesOrRaises ==
    (IsStopped("generate") /\ call.stub[1].kind = "text")
    => LET text == call.stub[1].text IN
       /\ IsFinishText(text) => call.result = Parse(text)
       /\ IsToolCallText(text)
            => /\ ReturnedA("AgentFinish")
               /\ call.result.value.return_values["output"] = text
       /\ IsUnparsable(text) => call.result = Raise(Parse(text).exc)

C6_Witness ==
    /\ IsStopped("generate")
    /\ call.stub[1].kind = "text"
    /\ IsToolCallText(call.stub[1].text)
    /\ ReturnedA("AgentFinish")

\* C7: for every method other than "force" and "generate",
\* return_stopped_response fails with the configuration error (ValueError)
\* without any model or parser call.
C7_UnknownMethodRejected ==
    (call.op = "return_stopped_response" /\ call.method \notin {"force", "generate"})
    => /\ Raised
       /\ call.result.exc.type = "ValueError"
       /\ call.modelCalls = <<>>
       /\ call.parserCalls = <<>>

C7_Witness ==
    /\ IsStopped("bogus")
    /\ Len(intermediate_steps) > 0
    /\ Raised

\* C8: get_full_inputs returns a mapping whose "agent_scratchpad" is the
\* scratchpad built from the history and whose "stop" is the derived stop
\* list, also when the caller passes those keys; every other caller key keeps
\* the caller's value; no model invocation is made.
C8_InjectedInputsWin ==
    call.op = "get_full_inputs"
    => LET inputs == call.result.value IN
       /\ Returned
       /\ DOMAIN inputs = DOMAIN call.kwargs \cup {"agent_scratchpad", "stop"}
       /\ inputs["agent_scratchpad"] = _construct_scratchpad(intermediate_steps)
       /\ inputs["stop"] = << "\nObservation:", "\n\tObservation:" >>
       /\ \A k \in DOMAIN call.kwargs \ {"agent_scratchpad", "stop"} :
              inputs[k] = call.kwargs[k]
       /\ call.modelCalls = <<>>

C8_Witness ==
    /\ call.op = "get_full_inputs"
    /\ {"agent_scratchpad", "stop", "input"} \subseteq DOMAIN call.kwargs
    /\ call.kwargs["agent_scratchpad"] /= call.result.value["agent_scratchpad"]
    /\ call.result.value["input"] = "q"

\* the part of a template the scratchpad slot is appended to
Body(p) == IF p.kind = "FewShotPromptTemplate" THEN p.suffix ELSE p.template

EndsWith(s, sub) ==
    Len(s) >= Len(sub) /\ SubSeq(s, Len(s) - Len(sub) + 1, Len(s)) = sub

\* the template was created flat or few-shot without "agent_scratchpad"
CreatedPatchable ==
    /\ created.kind \in {"PromptTemplate", "FewShotPromptTemplate"}
    /\ Count(created.input_variables, "agent_scratchpad") = 0

\* C9: for a flat or few-shot template created without "agent_scratchpad",
\* after one or more validations of that same template object the variable
\* occurs exactly once in the variable list and the trailing
\* "\n{agent_scratchpad}" extension exactly once in the body or suffix.
C9_InjectionExactlyOnce ==
    (CreatedPatchable /\ validations >= 1)
    => /\ Count(prompt.input_variables, "agent_scratchpad") = 1
       /\ Cardinality(Occurrences(Body(prompt), "\n{agent_scratchpad}")) = 1
       /\ EndsWith(Body(prompt), "\n{agent_scratchpad}")
       /\ Body(prompt) = Body(created) \o "\n{agent_scratchpad}"

C9_Witness ==
    /\ CreatedPatchable
    /\ created.kind = "FewShotPromptTemplate"
    /\ validations >= 2
    /\ constructed >= 2

\* the text one Step contributes to the scratchpad
StepText(step) ==
    step[1].log \o "\n" \o observation_prefix \o step[2] \o "\n" \o llm_prefix

\* length of the text of the first n Steps
RECURSIVE Offset(_, _)
Offset(steps, n) ==
    IF n = 0 THEN 0 ELSE Offset(steps, n - 1) + Len(StepText(steps[n]))

\* C10: the scratchpad is the in-order concatenation over all Steps of log,
\* newline, observation-prefix, Observation, newline, llm-prefix: the i-th
\* Step's text sits right after the texts of the Steps before it, nothing
\* follows the last one, and the empty history gives the empty string.
C10_ScratchpadIsTranscript ==
    call.op = "get_full_inputs"
    => LET steps == intermediate_steps
           scratchpad == call.result.value["agent_scratchpad"]
       IN /\ Len(scratchpad) = Offset(steps, Len(steps))
          /\ \A i \in 1..Len(steps) :
                 SubSeq(scratchpad, Offset(steps, i - 1) + 1, Offset(steps, i))
                     = StepText(steps[i])
          /\ steps = <<>> => scratchpad = ""

C10_Witness ==
    /\ call.op = "get_full_inputs"
    /\ Len(intermediate_steps) >= 2
    /\ intermediate_steps[1] /= intermediate_steps[2]
    /\ Len(call.result.value["agent_scratchpad"]) > 0

\* C11: every plan makes one or two model calls and never more: one when the
\* first call and the first parse succeed (the result is then the parse of
\* the first completion), a second one only after a failure in the first
\* attempt; plan ends by returning one Decision or by raising.
C11_OneOrTwoModelCalls ==
    IsPlan
    => /\ NumModelCalls \in {1, 2}
       /\ (call.stub[1].kind = "text" /\ ~IsUnparsable(call.stub[1].text))
              => /\ NumModelCalls = 1
                 /\ call.result = Parse(call.stub[1].text)
       /\ NumModelCalls = 2
              => \/ call.stub[1].kind = "raise"
                 \/ IsUnparsable(call.stub[1].text)
       /\ \/ ReturnedA("AgentAction")
          \/ ReturnedA("AgentFinish")
          \/ Raised

C11_Witness ==
    /\ FirstParseFailed
    /\ RetryFailed
    /\ NumModelCalls = 2
    /\ Raised

\* the template declares the scratchpad variable and has the slot in its text
HasInjectionPoint(p) ==
    /\ Count(p.input_variables, "agent_scratchpad") >= 1
    /\ Contains(Body(p), "{agent_scratchpad}")

\* C12: a Decision Loop has been constructed over a template only if the
\* template declares "agent_scratchpad" and contains the injection point; no
\* construction succeeds over a template that is neither flat nor few-shot
\* and was created without "agent_scratchpad".
C12_ConstructedOnlyWithInjectionPoint ==
    /\ constructed > 0 => HasInjectionPoint(prompt)
    /\ (/\ created.kind \notin {"PromptTemplate", "FewShotPromptTemplate"}
        /\ Count(created.input_variables, "agent_scratchpad") = 0)
       => constructed = 0

\* C13: in "generate" mode return_stopped_response makes exactly one model
\* call and never retries: when that call raises, or the parser raises on its
\* completion, the error is the result and no second call is made.
C13_GenerateNeverRetries ==
    IsStopped("generate")
    => /\ NumModelCalls = 1
       /\ Len(call.parserCalls) <= 1
       /\ call.stub[1].kind = "raise"
              => /\ call.result = Raise(call.stub[1].exc)
                 /\ call.parserCalls = <<>>
       /\ (call.stub[1].kind = "text" /\ IsUnparsable(call.stub[1].text))
              => /\ Raised
                 /\ call.parserCalls = <<call.stub[1].text>>

C13_Witness ==
    /\ IsStopped("generate")
    /\ call.stub[1].kind = "text"
    /\ IsUnparsable(call.stub[1].text)
    /\ Raised
    /\ NumModelCalls = 1

\* C14: the model call of "generate" receives as agent_scratchpad the
\* scratchpad get_full_inputs builds for the same history followed by the
\* fixed final-answer instruction, the stop sequences of a normal plan call,
\* and the caller's other bindings unchanged.
C14_GenerateInputs ==
    IsStopped("generate")
    => LET normal == get_full_inputs(intermediate_steps, call.kwargs)
           sent == call.modelCalls[1]
       IN /\ DOMAIN sent = DOMAIN normal
          /\ sent["agent_scratchpad"] =
                 normal["agent_scratchpad"]
                   \o "\n\nI now need to return a final answer based on the previous steps:"
          /\ sent["stop"] = normal["stop"]
          /\ \A k \in DOMAIN call.kwargs \ {"agent_scratchpad", "stop"} :
                 sent[k] = call.kwargs[k]

C14_Witness ==
    /\ IsStopped("generate")
    /\ Len(intermediate_steps) >= 1
    /\ "agent_scratchpad" \in DOMAIN call.kwargs
    /\ NumModelCalls = 1

\* what a caller can observe of a run: the model calls, the parser calls and
\* the returned Decision or raised error
Observed(t) == <<t.modelCalls, t.parserCalls, t.result>>

\* C15: for the same history, bindings and model behaviour, plan and aplan
\* issue the same model calls with the same inputs, make the same parser
\* calls and end with the same Decision or the same error.
C15_PlanAplanEquivalent ==
    /\ call.op = "aplan"
         => Observed(call) =
                Observed(plan(intermediate_steps, call.kwargs, call.stub[1], call.stub[2]))
    /\ call.op = "plan"
         => Observed(call) =
                Observed(aplan(intermediate_steps, call.kwargs, call.stub[1], call.stub[2]))

C15_Witness ==
    /\ call.op = "aplan"
    /\ NumModelCalls = 2
    /\ Len(call.parserCalls) = 2
    /\ Len(intermediate_steps) >= 1
    /\ ReturnedA("AgentAction")

\* the run of the coroutine's inputs and responses with nothing else going on
Alone(f) == plan(f.steps, f.kwargs, f.stub[1], f.stub[Len(f.stub)])

\* C16: when aplan coroutines with private histories overlap on one agent,
\* under every interleaving at the awaits each issues the model inputs and
\* reaches the result it would alone; the retry extension of one is never in
\* the model inputs of another.
C16_OverlappingAplanIsolated ==
    \A t \in Tasks :
        LET f == tasks[t] IN
        /\ f.pc = "await1" => f.modelCalls = <<get_full_inputs(f.steps, f.kwargs)>>
        /\ f.pc = "await2"
             => /\ f.modelCalls = Alone(f).modelCalls
                /\ f.modelCalls[2]["agent_scratchpad"] =
                       (_construct_scratchpad(f.steps) \o f.stub[1].text) \o "\nAction: "
        /\ f.pc = "done"
             => /\ f.modelCalls = Alone(f).modelCalls
                /\ f.result = Alone(f).result

C16_Witness ==
    /\ tasks[1].pc = "await2"
    /\ tasks[2].pc = "await2"
    /\ tasks[1].steps /= tasks[2].steps
    /\ tasks[1].stub[1] /= tasks[2].stub[1]
    /\ tasks[1].kwargs /= tasks[2].kwargs

\* C17: plan, aplan, get_full_inputs and return_stopped_response leave the
\* history they are given and the prompt template as they found them, on
\* success, on the retry path and on failure.
C17_CallsLeaveHistoryAlone ==
    [][call' /= call => (intermediate_steps' = intermediate_steps /\ prompt' = prompt)]_vars

C17_Witness ==
    /\ FirstParseFailed
    /\ RetryFailed
    /\ Len(intermediate_steps) = MaxSteps

\* C18: a construction that fails with the configuration error leaves the
\* template as it was: variable list and text unchanged.
C18_FailedConstructionLeavesTemplate ==
    lastValidate = "ValueError" => prompt = created

====
